---- MODULE Spec2Model ----
(***************************************************************************)
(* Model of memgpt/schemas/message.py: the Message record, the ingest      *)
(* adapter Message.dict_to_message and the provider encoders.              *)
(*                                                                         *)
(* Representation.                                                         *)
(*   - A Python str is a sequence of one-character strings.                *)
(*   - Optional[T] is a sequence of length 0 (None) or 1 (<<value>>), so   *)
(*     that None never has to be compared with a value of another type.    *)
(*   - ToolCall objects live in `heap`; a record holds their addresses.    *)
(*   - A Python dict is a sequence of <<key, value>> pairs with distinct   *)
(*     keys, in insertion order.                                           *)
(*   - A call returns [ok |-> TRUE, val |-> ...] or, when it raises,       *)
(*     [ok |-> FALSE, err |-> <exception class>].                          *)
(***************************************************************************)
EXTENDS Naturals, Sequences, FiniteSets, TLC

\* ------------------------------------------------------------- bounds
\* Longest correlation id the model builds.
MaxIdLen == 4
\* Most tool calls a constructed record carries.
MaxCalls == 2
\* memgpt.constants.TOOL_CALL_ID_MAX_LEN (imported at message.py:9): the value
\* is set outside the files modelled here, so it is a parameter of the model.
TOOL_CALL_ID_MAX_LEN == 2

\* ------------------------------------------------------------- Optional
None == <<>>
Some(x) == <<x>>
IsNone(o) == Len(o) = 0
NotNone(o) == Len(o) = 1
Val(o) == o[1]

\* ------------------------------------------------------------- strings
Q == "\""
SP == " "
Concat(a, b) == a \o b

\* local_llm.constants.INNER_THOUGHTS_KWARG (imported at message.py:10); the
\* Google encoder spells the same key as a literal at message.py:400.
INNER_THOUGHTS_KWARG == <<"i", "n", "n", "e", "r", "_", "t", "h", "o", "u", "g", "h", "t", "s">>

\* s[:n] for n >= 0
Slice(s, n) == IF n >= Len(s) THEN s ELSE SubSeq(s, 1, n)

\* sep.join(parts)
RECURSIVE Join(_, _)
Join(sep, parts) ==
    IF Len(parts) = 0 THEN <<>>
    ELSE IF Len(parts) = 1 THEN parts[1]
    ELSE parts[1] \o sep \o Join(sep, Tail(parts))

\* ------------------------------------------------------------- dict
RECURSIVE DictHas(_, _)
DictHas(d, k) ==
    IF Len(d) = 0 THEN FALSE
    ELSE IF d[1][1] = k THEN TRUE
    ELSE DictHas(Tail(d), k)

RECURSIVE DictGet(_, _)
DictGet(d, k) ==
    IF d[1][1] = k THEN d[1][2] ELSE DictGet(Tail(d), k)

\* d[k] = v : an existing key keeps its position, a new key goes last
DictSet(d, k, v) ==
    IF DictHas(d, k)
    THEN [i \in 1..Len(d) |-> IF d[i][1] = k THEN <<k, v>> ELSE d[i]]
    ELSE Append(d, <<k, v>>)

\* ------------------------------------------------------------- JSON
\* json.loads / json.dumps on the fragment the tool-call arguments use: an
\* object whose keys are strings and whose values are strings or null (the
\* strings free of quotes and backslashes), or a bare number.  Anything else raises json.JSONDecodeError.
Digits == {"0", "1", "2", "3", "4", "5", "6", "7", "8", "9"}

RECURSIVE SkipWs(_, _)
SkipWs(s, i) == IF i <= Len(s) /\ s[i] = SP THEN SkipWs(s, i + 1) ELSE i

\* index of the quote closing the string literal opened before position i, or 0
RECURSIVE CloseQuote(_, _)
CloseQuote(s, i) ==
    IF i > Len(s) THEN 0
    ELSE IF s[i] = Q THEN i
    ELSE IF s[i] = "\\" THEN 0
    ELSE CloseQuote(s, i + 1)

\* the literal null at position i
IsNull(s, i) ==
    i + 3 <= Len(s) /\ SubSeq(s, i, i + 3) = <<"n", "u", "l", "l">>

\* a string literal at position i: [ok, val, next]
StringTo(s, i, j) ==
    IF j = 0 THEN [ok |-> FALSE]
    ELSE [ok |-> TRUE, val |-> SubSeq(s, i + 1, j - 1), next |-> j + 1]

ParseString(s, i) ==
    IF i > Len(s) \/ s[i] # Q THEN [ok |-> FALSE]
    ELSE StringTo(s, i, CloseQuote(s, i + 1))

\* a member's value at position i: a string (Some(chars)) or null (None)
StringValue(v) ==
    IF v.ok THEN [ok |-> TRUE, val |-> Some(v.val), next |-> v.next] ELSE [ok |-> FALSE]

ParseValue(s, i) ==
    IF IsNull(s, i) THEN [ok |-> TRUE, val |-> None, next |-> i + 4]
    ELSE StringValue(ParseString(s, i))

\* the members of an object from position i (after "{" or ","), acc so far;
\* one operator per step of the scan: the key k, the colon at c, the value v,
\* and what follows the value at e
RECURSIVE ParseMembers(_, _, _)
MemberEnd(s, acc, k, v, e) ==
    IF e > Len(s) THEN [ok |-> FALSE]
    ELSE IF s[e] = "," THEN ParseMembers(s, e + 1, DictSet(acc, k.val, v.val))
    ELSE IF s[e] = "}" /\ SkipWs(s, e + 1) > Len(s)
         THEN [ok |-> TRUE, kind |-> "object", val |-> DictSet(acc, k.val, v.val)]
    ELSE [ok |-> FALSE]

MemberValue(s, acc, k, v) ==
    IF ~v.ok THEN [ok |-> FALSE] ELSE MemberEnd(s, acc, k, v, SkipWs(s, v.next))

MemberColon(s, acc, k, c) ==
    IF c > Len(s) \/ s[c] # ":" THEN [ok |-> FALSE]
    ELSE MemberValue(s, acc, k, ParseValue(s, SkipWs(s, c + 1)))

MemberKey(s, acc, k) ==
    IF ~k.ok THEN [ok |-> FALSE] ELSE MemberColon(s, acc, k, SkipWs(s, k.next))

ParseMembers(s, i, acc) == MemberKey(s, acc, ParseString(s, SkipWs(s, i)))

RECURSIVE AllDigits(_, _)
AllDigits(s, i) ==
    IF i > Len(s) THEN TRUE
    ELSE s[i] \in Digits /\ AllDigits(s, i + 1)

\* the value starting at position i, the first character that is no blank
ValueAt(s, i) ==
    IF i > Len(s) THEN [ok |-> FALSE]
    ELSE IF s[i] = "{"
         THEN IF SkipWs(s, i + 1) <= Len(s) /\ s[SkipWs(s, i + 1)] = "}"
              THEN IF SkipWs(s, SkipWs(s, i + 1) + 1) > Len(s)
                   THEN [ok |-> TRUE, kind |-> "object", val |-> <<>>]
                   ELSE [ok |-> FALSE]
              ELSE ParseMembers(s, i + 1, <<>>)
    ELSE IF s[i] \in Digits /\ AllDigits(s, i)
         THEN [ok |-> TRUE, kind |-> "number", val |-> SubSeq(s, i, Len(s))]
    ELSE [ok |-> FALSE]

json_loads(s) == ValueAt(s, SkipWs(s, 1))

Quoted(s) == <<Q>> \o s \o <<Q>>

DumpValue(v) == IF IsNone(v) THEN <<"n", "u", "l", "l">> ELSE Quoted(Val(v))

\* json.dumps of a dict: {"k": "v", "k2": null}
json_dumps(d) ==
    <<"{">>
    \o Join(<<",", SP>>, [i \in 1..Len(d) |-> Quoted(d[i][1]) \o <<":", SP>> \o DumpValue(d[i][2])])
    \o <<"}">>

\* ------------------------------------------------------------- input values
Alphabet == <<"a", "b", "c", "d", "e", "f", "g", "h">>
\* the correlation id of length n: its characters differ by position
IdOf(n) == [i \in 1..n |-> Alphabet[((i - 1) % Len(Alphabet)) + 1]]
Ids == {IdOf(n) : n \in 0..MaxIdLen}

TextOk == <<"o", "k">>
Texts == {<<>>, TextOk}
NameF == <<"f">>
NameG == <<"g">>

\* {"q": "c", "k": "v"}
ArgsObject == <<"{", Q, "q", Q, ":", SP, Q, "c", Q, ",", SP, Q, "k", Q, ":", SP, Q, "v", Q, "}">>
\* {"inner_thoughts": "x"} : already holds the reserved key
ArgsReserved == <<"{">> \o Quoted(INNER_THOUGHTS_KWARG) \o <<":", SP, Q, "x", Q, "}">>
\* {"q": : not JSON
ArgsBroken == <<"{", Q, "q", Q, ":">>
\* 1 : JSON, but no object
ArgsNumber == <<"1">>

\* memgpt.schemas.openai.chat_completions.ToolCall as message.py builds and
\* reads it: ToolCall(id=, tool_call_type=, function={name, arguments})
ToolCall(id, tool_call_type, function) ==
    [id |-> id, tool_call_type |-> tool_call_type, function |-> function]

\* vars(tc) of the ToolCall at address a: a dict of its attributes, which is
\* no ToolCall (no attribute access, no model_dump, no vars of its own)
VarsOf(tc, a) ==
    [id |-> tc.id, tool_call_type |-> tc.tool_call_type, function |-> tc.function, vars_of |-> a]

IsDict(o) == "vars_of" \in DOMAIN o

\* the list holds dicts where ToolCall objects are expected
HoldsDicts(h, calls) == Len(calls) > 0 /\ IsDict(h[calls[1]])

MkCall(id, name, arguments) ==
    ToolCall(id, "function", [name |-> name, arguments |-> arguments])

CallPool ==
    { MkCall(IdOf(MaxIdLen), NameF, ArgsObject),
      MkCall(IdOf(1), NameG, ArgsReserved),
      MkCall(IdOf(1), NameG, ArgsBroken) }

\* the lists of tool calls a record is constructed with
CallLists ==
    UNION {[1..n -> CallPool] : n \in 0..MaxCalls} \cup {<<MkCall(IdOf(1), NameF, ArgsNumber)>>}

\* a multimodal content list (List[dict])
MMContent == <<[type |-> "image_url"]>>

\* ToolCall.model_dump() / ToolCall.to_dict(): the plain structure of a call
model_dump(tc) ==
    [id |-> tc.id, type |-> tc.tool_call_type, function |-> tc.function]

\* ------------------------------------------------------------- Message
MessageRoles == {"system", "assistant", "user", "tool"}

\* Message(...): the fields are checked against their declared types (role one
\* of the four roles, text a str) and nothing else; the tool calls become
\* objects of the heap.
Message(role, text, name, tool_calls, tool_call_id, mm_content) ==
    IF role \notin MessageRoles \/ IsNone(text)
    THEN [ok |-> FALSE, err |-> "ValidationError"]
    ELSE [ok |-> TRUE,
          heap |-> IF IsNone(tool_calls) THEN <<>> ELSE Val(tool_calls),
          rec |-> [role |-> role,
                   text |-> text,
                   name |-> name,
                   tool_calls |-> IF IsNone(tool_calls) THEN None
                                  ELSE Some([i \in 1..Len(Val(tool_calls)) |-> i]),
                   tool_call_id |-> tool_call_id,
                   mm_content |-> mm_content,
                   created_at |-> "datetime"]]

\* ------------------------------------------------------------- inner thoughts
deepcopy_Alias(h, a) == [heap |-> h, addr |-> a]

\* copy.deepcopy(tool_call): a new object with the same fields
deepcopy(h, a) == [heap |-> Append(h, h[a]), addr |-> Len(h) + 1]

SetThoughts_Lost(func_args, inner_thoughts_key, inner_thoughts) == func_args

\* func_args[inner_thoughts_key] = inner_thoughts
SetThoughts(func_args, inner_thoughts_key, inner_thoughts) ==
    DictSet(func_args, inner_thoughts_key, inner_thoughts)

\* add_inner_thoughts_to_tool_call on the call at address a of heap h:
\* [ok, heap, addr] with addr the returned ToolCall
add_inner_thoughts_to_tool_call(h, a, inner_thoughts, inner_thoughts_key) ==
    LET parsed == json_loads(h[a].function.arguments) IN
    IF IsDict(h[a]) THEN [ok |-> FALSE, err |-> "AttributeError", heap |-> h]
    ELSE IF ~parsed.ok THEN [ok |-> FALSE, err |-> "JSONDecodeError", heap |-> h]
    ELSE IF parsed.kind # "object" THEN [ok |-> FALSE, err |-> "TypeError", heap |-> h]
    ELSE LET func_args == SetThoughts(parsed.val, inner_thoughts_key, inner_thoughts)
             c == deepcopy(h, a) IN
         [ok |-> TRUE,
          heap |-> [c.heap EXCEPT ![c.addr].function.arguments = json_dumps(func_args)],
          addr |-> c.addr]

\* ------------------------------------------------------------- to_json
\* json_message["tool_calls"] = [vars(tc) for tc in json_message["tool_calls"]]
\* with json_message = vars(self): the record's own list is replaced by the
\* list of dicts
Flattened(h, calls) ==
    [heap |-> h \o [i \in 1..Len(calls) |-> VarsOf(h[calls[i]], calls[i])],
     addrs |-> [i \in 1..Len(calls) |-> Len(h) + i]]

\* the dict to_json returns: the record's own attribute dict
JsonMessage(rec, h) ==
    [role |-> rec.role, text |-> rec.text, name |-> rec.name,
     tool_call_id |-> rec.tool_call_id, created_at |-> rec.created_at,
     tool_calls |-> IF IsNone(rec.tool_calls) THEN None
                    ELSE Some([i \in 1..Len(Val(rec.tool_calls)) |->
                                 model_dump(h[Val(rec.tool_calls)[i]])])]

\* the record and the heap with the tool calls flattened to flat and
\* created_at set to its ISO string
Projected(m, flat) ==
    [ok |-> TRUE, heap |-> flat.heap,
     rec |-> [m EXCEPT !.tool_calls = Some(flat.addrs), !.created_at = "str"],
     val |-> JsonMessage([m EXCEPT !.tool_calls = Some(flat.addrs), !.created_at = "str"],
                         flat.heap)]

\* raised is the error the datetime steps (is_utc_datetime, replace,
\* isoformat) end in when created_at is already a string
to_json(m, h, raised) ==
    IF NotNone(m.tool_calls) /\ HoldsDicts(h, Val(m.tool_calls))
    THEN [ok |-> FALSE, err |-> "TypeError", heap |-> h, rec |-> m]
    ELSE IF m.created_at # "datetime"
    THEN [ok |-> FALSE, err |-> raised, heap |-> h, rec |-> m]
    ELSE IF IsNone(m.tool_calls)
    THEN [ok |-> TRUE, heap |-> h, rec |-> [m EXCEPT !.created_at = "str"],
          val |-> JsonMessage([m EXCEPT !.created_at = "str"], h)]
    ELSE Projected(m, Flattened(h, Val(m.tool_calls)))

\* ------------------------------------------------------------- OpenAI
\* the list comprehension of message.py:249-256 over calls[i..]:
\* [ok, heap, val] with val the dumped calls
RECURSIVE PackAll(_, _, _, _)
PackAll(h, calls, i, text) ==
    IF i > Len(calls) THEN [ok |-> TRUE, heap |-> h, val |-> <<>>]
    ELSE LET r == add_inner_thoughts_to_tool_call(h, calls[i], text, INNER_THOUGHTS_KWARG) IN
         IF ~r.ok THEN r
         ELSE LET rest == PackAll(r.heap, calls, i + 1, text) IN
              IF ~rest.ok THEN rest
              ELSE [ok |-> TRUE, heap |-> rest.heap,
                    val |-> <<model_dump(r.heap[r.addr])>> \o rest.val]

TruncateId_Suffix(id, max_tool_id_length) ==
    IF max_tool_id_length >= Len(id) THEN id
    ELSE SubSeq(id, Len(id) - max_tool_id_length + 1, Len(id))

\* tool_call_dict["id"][:max_tool_id_length]
TruncateId(id, max_tool_id_length) == Slice(id, max_tool_id_length)

WithName(m, d) == IF NotNone(m.name) THEN d @@ [name |-> Val(m.name)] ELSE d

to_openai_dict(m, h, max_tool_id_length, put_inner_thoughts_in_kwargs) ==
    IF m.role = "system"
    THEN [ok |-> TRUE, heap |-> h,
          val |-> WithName(m, [content |-> m.text, role |-> m.role])]
    ELSE IF m.role = "user"
    THEN IF IsNone(m.text) THEN [ok |-> FALSE, err |-> "AssertionError", heap |-> h]
         ELSE [ok |-> TRUE, heap |-> h,
               val |-> WithName(m, [content |-> IF NotNone(m.mm_content)
                                                 THEN Val(m.mm_content) ELSE m.text,
                                    role |-> m.role])]
    ELSE IF m.role = "assistant"
    THEN IF IsNone(m.tool_calls) /\ IsNone(m.text)
         THEN [ok |-> FALSE, err |-> "AssertionError", heap |-> h]
         ELSE LET base == WithName(m, [content |-> IF put_inner_thoughts_in_kwargs
                                                   THEN None ELSE m.text,
                                       role |-> m.role]) IN
              IF IsNone(m.tool_calls) THEN [ok |-> TRUE, heap |-> h, val |-> base]
              ELSE LET calls == Val(m.tool_calls)
                       dumped == IF put_inner_thoughts_in_kwargs
                                 THEN PackAll(h, calls, 1, m.text)
                                 ELSE IF HoldsDicts(h, calls)
                                 THEN [ok |-> FALSE, err |-> "AttributeError", heap |-> h]
                                 ELSE [ok |-> TRUE, heap |-> h,
                                       val |-> [i \in 1..Len(calls) |-> model_dump(h[calls[i]])]] IN
                   IF ~dumped.ok THEN dumped
                   ELSE [ok |-> TRUE, heap |-> dumped.heap,
                         val |-> base @@
                           [tool_calls |->
                              IF max_tool_id_length # 0
                              THEN [i \in 1..Len(dumped.val) |->
                                      [dumped.val[i] EXCEPT
                                         !.id = TruncateId(@, max_tool_id_length)]]
                              ELSE dumped.val]]
    ELSE IF m.role = "tool"
    THEN IF IsNone(m.tool_call_id) THEN [ok |-> FALSE, err |-> "AssertionError", heap |-> h]
         ELSE [ok |-> TRUE, heap |-> h,
               val |-> [content |-> m.text, role |-> m.role,
                        tool_call_id |-> IF max_tool_id_length # 0
                                         THEN TruncateId(Val(m.tool_call_id), max_tool_id_length)
                                         ELSE Val(m.tool_call_id)]]
    ELSE [ok |-> FALSE, err |-> "ValueError", heap |-> h]

\* ------------------------------------------------------------- ingest
Has(d, k) == k \in DOMAIN d
GetOr_Dropped(d, k) == None

\* d[k] if k in d else None
GetOr(d, k) == IF Has(d, k) THEN d[k] ELSE None

\* ToolCall(id=tool_call["id"], tool_call_type=tool_call["type"], function=tool_call["function"])
FromDict(tool_call) == ToolCall(tool_call.id, tool_call.type, tool_call.function)

FromDicts(tcs) == IF IsNone(tcs) THEN None ELSE Some([i \in 1..Len(Val(tcs)) |-> FromDict(Val(tcs)[i])])

Deprecated_Never(allow_functions_style) == FALSE

\* if not allow_functions_style: raise DeprecationWarning(...)
Deprecated(allow_functions_style) == ~allow_functions_style

dict_to_message(openai_message_dict, allow_functions_style) ==
    LET d == openai_message_dict IN
    IF ~Has(d, "role") \/ ~Has(d, "content")
    THEN [ok |-> FALSE, err |-> "AssertionError"]
    ELSE IF d["role"] = "function"
    THEN IF Deprecated(allow_functions_style) THEN [ok |-> FALSE, err |-> "DeprecationWarning"]
         ELSE IF ~Has(d, "tool_call_id") THEN [ok |-> FALSE, err |-> "AssertionError"]
         ELSE Message("tool", d["content"], GetOr(d, "name"),
                      FromDicts(GetOr(d, "tool_calls")), GetOr(d, "tool_call_id"), None)
    ELSE IF Has(d, "function_call") /\ NotNone(d["function_call"])
    THEN IF Deprecated(allow_functions_style) THEN [ok |-> FALSE, err |-> "DeprecationWarning"]
         ELSE IF d["role"] # "assistant" THEN [ok |-> FALSE, err |-> "AssertionError"]
         ELSE IF ~Has(d, "tool_call_id") THEN [ok |-> FALSE, err |-> "AssertionError"]
         ELSE IF IsNone(d["tool_call_id"]) THEN [ok |-> FALSE, err |-> "ValidationError"]
         ELSE Message(d["role"], d["content"], GetOr(d, "name"),
                      Some(<<ToolCall(Val(d["tool_call_id"]), "function",
                                      [name |-> Val(d["function_call"]).name,
                                       arguments |-> Val(d["function_call"]).arguments])>>),
                      None, None)
    ELSE IF d["role"] = "tool" /\ ~(Has(d, "tool_call_id") /\ NotNone(d["tool_call_id"]))
    THEN [ok |-> FALSE, err |-> "AssertionError"]
    ELSE IF d["role"] # "tool" /\ Has(d, "tool_call_id") /\ NotNone(d["tool_call_id"])
    THEN [ok |-> FALSE, err |-> "AssertionError"]
    ELSE IF Has(d, "tool_calls") /\ NotNone(d["tool_calls"]) /\ d["role"] # "assistant"
    THEN [ok |-> FALSE, err |-> "AssertionError"]
    ELSE Message(d["role"], d["content"], GetOr(d, "name"),
                 FromDicts(GetOr(d, "tool_calls")), GetOr(d, "tool_call_id"), None)

\* bool(x) of an Optional[str] or Optional[list]
Truthy(o) == NotNone(o) /\ Len(Val(o)) > 0

\* ------------------------------------------------------------- Anthropic
\* f"<{xml_tag}>{string}</{xml_tag}" if xml_tag else string
add_xml_tag(string, xml_tag) ==
    IF Truthy(xml_tag)
    THEN <<"<">> \o Val(xml_tag) \o <<">">> \o string \o <<"<", "/">> \o Val(xml_tag)
    ELSE string

\* the default of inner_thoughts_xml_tag
Thinking == <<"t", "h", "i", "n", "k", "i", "n", "g">>

AnthropicBlock_Skip(tool_call, parsed, rest) ==
    IF ~parsed.ok \/ ~rest.ok THEN rest
    ELSE [ok |-> TRUE,
          val |-> <<[type |-> "tool_use", id |-> tool_call.id,
                     name |-> tool_call.function.name, input |-> parsed.val]>> \o rest.val]

\* one round of the loop of message.py:309-318: the tool_use block of
\* tool_call, whose arguments parsed to parsed, before the blocks of the rest
AnthropicBlock(tool_call, parsed, rest) ==
    IF ~parsed.ok THEN [ok |-> FALSE, err |-> "JSONDecodeError"]
    ELSE IF ~rest.ok THEN rest
    ELSE [ok |-> TRUE,
          val |-> <<[type |-> "tool_use", id |-> tool_call.id,
                     name |-> tool_call.function.name, input |-> parsed.val]>> \o rest.val]

\* the loop over calls[i..]: [ok, val] with val the tool_use blocks
RECURSIVE AnthropicToolUse(_, _, _)
AnthropicToolUse(h, calls, i) ==
    IF i > Len(calls) THEN [ok |-> TRUE, val |-> <<>>]
    ELSE IF IsDict(h[calls[i]]) THEN [ok |-> FALSE, err |-> "AttributeError"]
    ELSE AnthropicBlock(h[calls[i]], json_loads(h[calls[i]].function.arguments),
                        AnthropicToolUse(h, calls, i + 1))

\* the text block of an assistant turn, when the record has text
AnthropicText(m, inner_thoughts_xml_tag) ==
    IF NotNone(m.text)
    THEN <<[type |-> "text", text |-> add_xml_tag(Val(m.text), inner_thoughts_xml_tag)]>>
    ELSE <<>>

\* the assistant turn made of the text block and the tool_use blocks
AnthropicAssistant(m, h, text, uses) ==
    IF ~uses.ok THEN [ok |-> FALSE, err |-> uses.err, heap |-> h]
    ELSE [ok |-> TRUE, heap |-> h,
          val |-> WithName(m, [role |-> m.role, content |-> text \o uses.val])]

to_anthropic_dict(m, h, inner_thoughts_xml_tag) ==
    IF m.role = "system" THEN [ok |-> FALSE, err |-> "ValueError", heap |-> h]
    ELSE IF m.role = "user"
    THEN IF IsNone(m.text) THEN [ok |-> FALSE, err |-> "AssertionError", heap |-> h]
         ELSE [ok |-> TRUE, heap |-> h,
               val |-> WithName(m, [content |-> Val(m.text), role |-> m.role])]
    ELSE IF m.role = "assistant"
    THEN IF IsNone(m.tool_calls) /\ IsNone(m.text)
         THEN [ok |-> FALSE, err |-> "AssertionError", heap |-> h]
         ELSE IF IsNone(m.tool_calls)
         THEN [ok |-> TRUE, heap |-> h,
               val |-> WithName(m, [role |-> m.role,
                                    content |-> AnthropicText(m, inner_thoughts_xml_tag)])]
         ELSE AnthropicAssistant(m, h, AnthropicText(m, inner_thoughts_xml_tag),
                                 AnthropicToolUse(h, Val(m.tool_calls), 1))
    ELSE IF m.role = "tool"
    THEN IF IsNone(m.tool_call_id) THEN [ok |-> FALSE, err |-> "AssertionError", heap |-> h]
         ELSE [ok |-> TRUE, heap |-> h,
               val |-> [role |-> "user",
                        content |-> <<[type |-> "tool_result",
                                       tool_use_id |-> Val(m.tool_call_id),
                                       content |-> m.text]>>]]
    ELSE [ok |-> FALSE, err |-> "ValueError", heap |-> h]

\* ------------------------------------------------------------- Google AI
SingleCall_Unchecked(calls) == TRUE

\* assert len(self.tool_calls) == 1
SingleCall(calls) == Len(calls) = 1

\* the loop of message.py:389-411 over calls[i..]: [ok, val] with val the parts
RECURSIVE GoogleParts(_, _, _, _, _)
GoogleParts(m, h, calls, i, put_inner_thoughts_in_kwargs) ==
    IF i > Len(calls) THEN [ok |-> TRUE, val |-> <<>>]
    ELSE IF IsDict(h[calls[i]]) THEN [ok |-> FALSE, err |-> "AttributeError"]
    ELSE LET tool_call == h[calls[i]]
             parsed == json_loads(tool_call.function.arguments)
             pack == put_inner_thoughts_in_kwargs /\ NotNone(m.text) IN
         IF ~parsed.ok THEN [ok |-> FALSE, err |-> "UserWarning"]
         ELSE IF pack /\ parsed.kind # "object" THEN [ok |-> FALSE, err |-> "TypeError"]
         ELSE IF pack /\ DictHas(parsed.val, INNER_THOUGHTS_KWARG)
         THEN [ok |-> FALSE, err |-> "AssertionError"]
         ELSE IF pack /\ ~SingleCall(calls) THEN [ok |-> FALSE, err |-> "AssertionError"]
         ELSE LET function_args == IF pack
                                   THEN DictSet(parsed.val, INNER_THOUGHTS_KWARG, m.text)
                                   ELSE parsed.val
                  rest == GoogleParts(m, h, calls, i + 1, put_inner_thoughts_in_kwargs) IN
              IF ~rest.ok THEN rest
              ELSE [ok |-> TRUE,
                    val |-> <<[functionCall |-> [name |-> tool_call.function.name,
                                                 args |-> function_args]]>> \o rest.val]

GoogleSystemRole_Kept == "system"

\* the role a system record is sent under: Gemini has no 'system' role
GoogleSystemRole == "user"

to_google_ai_dict(m, h, put_inner_thoughts_in_kwargs) ==
    IF m.role # "tool" /\ NotNone(m.name) THEN [ok |-> FALSE, err |-> "UserWarning", heap |-> h]
    ELSE IF m.role = "system"
    THEN [ok |-> TRUE, heap |-> h, val |-> [role |-> GoogleSystemRole, parts |-> <<[text |-> m.text]>>]]
    ELSE IF m.role = "user"
    THEN IF IsNone(m.text) THEN [ok |-> FALSE, err |-> "AssertionError", heap |-> h]
         ELSE [ok |-> TRUE, heap |-> h, val |-> [role |-> "user", parts |-> <<[text |-> m.text]>>]]
    ELSE IF m.role = "assistant"
    THEN IF IsNone(m.tool_calls) /\ IsNone(m.text)
         THEN [ok |-> FALSE, err |-> "AssertionError", heap |-> h]
         ELSE IF ~put_inner_thoughts_in_kwargs /\ NotNone(m.text)
         THEN [ok |-> FALSE, err |-> "NotImplementedError", heap |-> h]
         ELSE IF NotNone(m.tool_calls)
         THEN LET parts == GoogleParts(m, h, Val(m.tool_calls), 1, put_inner_thoughts_in_kwargs) IN
              IF ~parts.ok THEN [ok |-> FALSE, err |-> parts.err, heap |-> h]
              ELSE [ok |-> TRUE, heap |-> h, val |-> [role |-> "model", parts |-> parts.val]]
         ELSE IF IsNone(m.text) THEN [ok |-> FALSE, err |-> "AssertionError", heap |-> h]
         ELSE [ok |-> TRUE, heap |-> h, val |-> [role |-> "model", parts |-> <<[text |-> m.text]>>]]
    ELSE IF m.role = "tool"
    THEN IF IsNone(m.tool_call_id) THEN [ok |-> FALSE, err |-> "AssertionError", heap |-> h]
         ELSE LET function_name == IF IsNone(m.name) THEN Val(m.tool_call_id) ELSE Val(m.name)
                  parsed == IF IsNone(m.text) THEN [ok |-> FALSE] ELSE json_loads(Val(m.text))
                  function_response == IF parsed.ok THEN parsed.val
                                       ELSE [function_response |-> m.text] IN
              [ok |-> TRUE, heap |-> h,
               val |-> [role |-> "function",
                        parts |-> <<[functionResponse |->
                                       [name |-> function_name,
                                        response |-> [name |-> function_name,
                                                      content |-> function_response]]]>>]]
    ELSE [ok |-> FALSE, err |-> "ValueError", heap |-> h]

\* ------------------------------------------------------------- Cohere
\* str(x) of an Optional[str]
Str(o) == IF IsNone(o) THEN <<"N", "o", "n", "e">> ELSE Val(o)

\* the default of function_call_prefix: "[CHATBOT called function]"
CalledPrefix == <<"[", "C", "H", "A", "T", "B", "O", "T", SP, "c", "a", "l", "l", "e", "d", SP,
                  "f", "u", "n", "c", "t", "i", "o", "n", "]">>
\* the default of function_response_prefix: "[CHATBOT function returned]"
ReturnedPrefix == <<"[", "C", "H", "A", "T", "B", "O", "T", SP, "f", "u", "n", "c", "t", "i", "o", "n", SP,
                    "r", "e", "t", "u", "r", "n", "e", "d", "]">>

\* f"{prefix} {text}"
Prefixed(prefix, text) == Str(prefix) \o <<SP>> \o text

\* f"{function_name}({function_args_str})" with the arguments as k=v,k=v
RenderCall(function_name, function_args) ==
    function_name \o <<"(">>
    \o Join(<<",">>, [i \in 1..Len(function_args) |->
                        function_args[i][1] \o <<"=">> \o Str(function_args[i][2])])
    \o <<")">>

\* a string as json.dumps writes it inside another string: quotes and
\* backslashes escaped
RECURSIVE Escaped(_)
Escaped(s) ==
    IF Len(s) = 0 THEN <<>>
    ELSE (IF s[1] \in {Q, "\\"} THEN <<"\\", s[1]>> ELSE <<s[1]>>) \o Escaped(Tail(s))

\* json.dumps(tc.to_dict()): {"id": .., "type": .., "function": {"name": .., "arguments": ..}}
DumpCall(tc) ==
    <<"{">> \o Quoted(<<"i", "d">>) \o <<":", SP>> \o Quoted(Escaped(tc.id)) \o <<",", SP>>
    \o Quoted(<<"t", "y", "p", "e">>) \o <<":", SP>> \o Quoted(<<tc.tool_call_type>>) \o <<",", SP>>
    \o Quoted(<<"f", "u", "n", "c", "t", "i", "o", "n">>) \o <<":", SP, "{">>
    \o Quoted(<<"n", "a", "m", "e">>) \o <<":", SP>> \o Quoted(Escaped(tc.function.name)) \o <<",", SP>>
    \o Quoted(<<"a", "r", "g", "u", "m", "e", "n", "t", "s">>) \o <<":", SP>>
    \o Quoted(Escaped(tc.function.arguments)) \o <<"}", "}">>

\* the loop of message.py:506-518 over calls[i..]: [ok, val] with val the turns
RECURSIVE CohereRendered(_, _, _, _, _)
CohereRendered(h, calls, i, function_call_role, function_call_prefix) ==
    IF i > Len(calls) THEN [ok |-> TRUE, val |-> <<>>]
    ELSE IF IsDict(h[calls[i]]) THEN [ok |-> FALSE, err |-> "AttributeError"]
    ELSE LET tc == h[calls[i]]
             parsed == json_loads(tc.function.arguments) IN
         IF ~parsed.ok THEN [ok |-> FALSE, err |-> "JSONDecodeError"]
         ELSE IF parsed.kind # "object" THEN [ok |-> FALSE, err |-> "AttributeError"]
         ELSE LET rest == CohereRendered(h, calls, i + 1, function_call_role, function_call_prefix) IN
              IF ~rest.ok THEN rest
              ELSE [ok |-> TRUE,
                    val |-> <<[role |-> function_call_role,
                               message |-> Prefixed(function_call_prefix,
                                                    RenderCall(tc.function.name, parsed.val))]>>
                            \o rest.val]

to_cohere_dict(m, h, function_call_role, function_call_prefix, function_response_role, function_response_prefix, inner_thoughts_as_kwarg) ==
    IF m.role = "system" THEN [ok |-> FALSE, err |-> "UserWarning", heap |-> h]
    ELSE IF m.role = "user"
    THEN IF IsNone(m.text) THEN [ok |-> FALSE, err |-> "AssertionError", heap |-> h]
         ELSE [ok |-> TRUE, heap |-> h, val |-> <<[role |-> "USER", message |-> Val(m.text)]>>]
    ELSE IF m.role = "assistant"
    THEN IF IsNone(m.tool_calls) /\ IsNone(m.text)
         THEN [ok |-> FALSE, err |-> "AssertionError", heap |-> h]
         ELSE IF Truthy(m.text) /\ Truthy(m.tool_calls)
         THEN IF inner_thoughts_as_kwarg
              THEN [ok |-> FALSE, err |-> "NotImplementedError", heap |-> h]
              ELSE LET turns == CohereRendered(h, Val(m.tool_calls), 1,
                                               function_call_role, function_call_prefix) IN
                   IF ~turns.ok THEN [ok |-> FALSE, err |-> turns.err, heap |-> h]
                   ELSE [ok |-> TRUE, heap |-> h,
                         val |-> <<[role |-> "CHATBOT", message |-> Val(m.text)]>> \o turns.val]
         ELSE IF ~Truthy(m.text) /\ Truthy(m.tool_calls)
         THEN IF HoldsDicts(h, Val(m.tool_calls))
              THEN [ok |-> FALSE, err |-> "AttributeError", heap |-> h]
              ELSE
              [ok |-> TRUE, heap |-> h,
               val |-> [i \in 1..Len(Val(m.tool_calls)) |->
                          [role |-> function_call_role,
                           message |-> Prefixed(function_call_prefix,
                                                DumpCall(h[Val(m.tool_calls)[i]]))]]]
         ELSE IF Truthy(m.text) /\ ~Truthy(m.tool_calls)
         THEN [ok |-> TRUE, heap |-> h, val |-> <<[role |-> "CHATBOT", message |-> Val(m.text)]>>]
         ELSE [ok |-> FALSE, err |-> "ValueError", heap |-> h]
    ELSE IF m.role = "tool"
    THEN IF IsNone(m.tool_call_id) THEN [ok |-> FALSE, err |-> "AssertionError", heap |-> h]
         ELSE [ok |-> TRUE, heap |-> h,
               val |-> <<[role |-> function_response_role,
                          message |-> Prefixed(function_response_prefix, Str(m.text))]>>]
    ELSE [ok |-> FALSE, err |-> "ValueError", heap |-> h]

\* ------------------------------------------------------------- state
\* msg   : the record under consideration (None before one is constructed)
\* heap  : the ToolCall objects the record refers to
\* origin: the call that constructed the record, with its arguments
\* out   : the last call, its parameters and what it returned or raised
VARIABLES msg, heap, origin, out
vars == <<msg, heap, origin, out>>

Init == msg = None /\ heap = <<>> /\ origin = [op |-> "none"] /\ out = [op |-> "init"]

\* what a call leaves behind: its result without the heap it worked on
Outcome(op, args, r) ==
    IF r.ok THEN [op |-> op, args |-> args, ok |-> TRUE, val |-> r.val]
    ELSE [op |-> op, args |-> args, ok |-> FALSE, err |-> r.err]

\* the objects a returned call leaves alive: the temporaries are dropped
Live(h, r) == SubSeq(r.heap, 1, Len(h))

\* the construction calls leave the record (if any) and how it came about
Constructed(op, args, r) ==
    /\ msg' = IF r.ok THEN Some(r.rec) ELSE None
    /\ heap' = IF r.ok THEN r.heap ELSE <<>>
    /\ origin' = [op |-> op, args |-> args]
    /\ out' = IF r.ok THEN [op |-> op, ok |-> TRUE]
              ELSE [op |-> op, ok |-> FALSE, err |-> r.err]

\* the tool calls a constructor call is given: any list for an assistant
\* record, none or one call for the roles whose encoders never read them
CallListsFor(role) ==
    IF role = "assistant" THEN CallLists
    ELSE {l \in CallLists : Len(l) = 1 /\ l[1].function.arguments = ArgsObject}

\* Message(role=..., text=..., ...) called directly
Construct ==
    /\ origin.op = "none"
    /\ \E role \in MessageRoles \cup {"function"},
          text \in {None} \cup {Some(t) : t \in Texts},
          name \in {None, Some(NameF)},
          tool_call_id \in {None, Some(IdOf(1)), Some(IdOf(MaxIdLen))} :
       \E tool_calls \in {None} \cup {Some(l) : l \in CallListsFor(role)},
          mm_content \in IF role = "user" THEN {None, Some(MMContent)} ELSE {None} :
        Constructed("Message",
                    [role |-> role, text |-> text, name |-> name,
                     tool_calls |-> tool_calls, tool_call_id |-> tool_call_id],
                    Message(role, text, name, tool_calls, tool_call_id, mm_content))

\* the payloads handed to dict_to_message: every subset of the keys present
PayloadKeys == {"role", "content", "name", "tool_call_id", "function_call", "tool_calls"}

FunctionCall == [name |-> NameF, arguments |-> ArgsObject]

FullPayloads ==
    [role : MessageRoles \cup {"function"},
     content : {None, Some(TextOk)},
     name : {Some(NameF)},
     tool_call_id : {None} \cup {Some(i) : i \in Ids},
     function_call : {None, Some(FunctionCall)},
     tool_calls : {None, Some(<<model_dump(MkCall(IdOf(MaxIdLen), NameG, ArgsObject))>>)}]

Payloads == {[k \in D |-> f[k]] : f \in FullPayloads, D \in SUBSET PayloadKeys}

\* Message.dict_to_message(user_id, agent_id, openai_message_dict, allow_functions_style=...)
DictToMessage ==
    /\ origin.op = "none"
    /\ \E d \in Payloads, allow_functions_style \in BOOLEAN :
        Constructed("dict_to_message",
                    [openai_message_dict |-> d, allow_functions_style |-> allow_functions_style],
                    dict_to_message(d, allow_functions_style))

\* record.to_json()
ToJson ==
    /\ NotNone(msg)
    /\ \E raised \in {"AttributeError", "TypeError"} :
        LET r == to_json(Val(msg), heap, raised) IN
        /\ out' = Outcome("to_json", <<>>, r)
        /\ msg' = Some(r.rec)
        /\ heap' = r.heap
        /\ UNCHANGED origin

\* record.to_openai_dict(max_tool_id_length, put_inner_thoughts_in_kwargs)
ToOpenAI ==
    /\ NotNone(msg)
    /\ \E max_tool_id_length \in 0..(MaxIdLen + 1), put \in BOOLEAN :
        LET r == to_openai_dict(Val(msg), heap, max_tool_id_length, put) IN
        /\ out' = Outcome("to_openai_dict",
                          [max_tool_id_length |-> max_tool_id_length,
                           put_inner_thoughts_in_kwargs |-> put], r)
        /\ heap' = Live(heap, r)
        /\ UNCHANGED <<msg, origin>>

\* record.to_anthropic_dict(inner_thoughts_xml_tag=...)
ToAnthropic ==
    /\ NotNone(msg)
    /\ \E inner_thoughts_xml_tag \in {Some(Thinking), None} :
        LET r == to_anthropic_dict(Val(msg), heap, inner_thoughts_xml_tag) IN
        /\ out' = Outcome("to_anthropic_dict",
                          [inner_thoughts_xml_tag |-> inner_thoughts_xml_tag], r)
        /\ heap' = Live(heap, r)
        /\ UNCHANGED <<msg, origin>>

\* record.to_google_ai_dict(put_inner_thoughts_in_kwargs)
ToGoogleAI ==
    /\ NotNone(msg)
    /\ \E put \in BOOLEAN :
        LET r == to_google_ai_dict(Val(msg), heap, put) IN
        /\ out' = Outcome("to_google_ai_dict", [put_inner_thoughts_in_kwargs |-> put], r)
        /\ heap' = Live(heap, r)
        /\ UNCHANGED <<msg, origin>>

\* record.to_cohere_dict(function_call_role=..., inner_thoughts_as_kwarg=...)
ToCohere ==
    /\ NotNone(msg)
    /\ \E function_call_role \in {"SYSTEM", "TOOL"}, inner_thoughts_as_kwarg \in BOOLEAN :
        LET r == to_cohere_dict(Val(msg), heap, function_call_role, Some(CalledPrefix),
                                "SYSTEM", Some(ReturnedPrefix), inner_thoughts_as_kwarg) IN
        /\ out' = Outcome("to_cohere_dict",
                          [function_call_role |-> function_call_role,
                           function_call_prefix |-> Some(CalledPrefix),
                           inner_thoughts_as_kwarg |-> inner_thoughts_as_kwarg], r)
        /\ heap' = Live(heap, r)
        /\ UNCHANGED <<msg, origin>>

Next == Construct \/ DictToMessage \/ ToJson \/ ToOpenAI \/ ToAnthropic \/ ToGoogleAI \/ ToCohere

Spec == Init /\ [][Next]_vars

\* ------------------------------------------------------------- properties
HasRecord == NotNone(msg)
Rec == Val(msg)
\* the stored tool calls of the record, in order (none when tool_calls is None)
\* the record's tool_calls are the ToolCall objects it was constructed with
\* (to_json has not replaced them by dicts)
HoldsToolCalls ==
    IsNone(Rec.tool_calls) \/ ~HoldsDicts(heap, Val(Rec.tool_calls))

StoredCalls ==
    IF NotNone(Rec.tool_calls)
    THEN [i \in 1..Len(Val(Rec.tool_calls)) |-> heap[Val(Rec.tool_calls)[i]]]
    ELSE <<>>
Ran(op) == out.op = op
Min(a, b) == IF a <= b THEN a ELSE b
\* o is the first n characters of s
IsPrefix(o, s, n) == Len(o) = n /\ n <= Len(s) /\ \A j \in 1..n : o[j] = s[j]
\* every key of small is a key of big with the same value
DictIncludes(big, small) ==
    \A i \in 1..Len(small) : DictHas(big, small[i][1]) /\ DictGet(big, small[i][1]) = small[i][2]
IsObject(arguments) == json_loads(arguments).ok /\ json_loads(arguments).kind = "object"
ObjectOf(arguments) == json_loads(arguments).val
HoldsThoughts(d, text) == DictHas(d, INNER_THOUGHTS_KWARG) /\ DictGet(d, INNER_THOUGHTS_KWARG) = text

\* C1: every record a construction path returns has role = tool exactly when
\* its tool_call_id is non-null (so a mismatching input yields no record).
C1_ToolCallIdIffTool ==
    HasRecord => (Rec.role = "tool" <=> NotNone(Rec.tool_call_id))

\* a payload of today's OpenAI shape with role system, user or tool: string
\* content, no function_call, no tool_calls, a tool_call_id exactly for tool
IsModern(d) ==
    /\ Has(d, "role") /\ d["role"] \in {"system", "user", "tool"}
    /\ Has(d, "content") /\ NotNone(d["content"])
    /\ ~Has(d, "function_call") \/ IsNone(d["function_call"])
    /\ ~Has(d, "tool_calls") \/ IsNone(d["tool_calls"])
    /\ d["role"] = "tool" => Has(d, "tool_call_id") /\ NotNone(d["tool_call_id"])
    /\ d["role"] # "tool" => ~Has(d, "tool_call_id") \/ IsNone(d["tool_call_id"])

FromModern == origin.op = "dict_to_message" /\ IsModern(origin.args.openai_message_dict)
Payload == origin.args.openai_message_dict
DefaultLength == Ran("to_openai_dict") /\ out.args.max_tool_id_length = TOOL_CALL_ID_MAX_LEN

\* C2 as stated: ingesting a modern payload and re-encoding it with the default
\* max_tool_id_length gives back its content, role and whole tool_call_id,
\* whatever the length of the tool_call_id.
C2_RoundTripAnyLength ==
    /\ FromModern /\ Ran("dict_to_message") => out.ok
    /\ FromModern /\ DefaultLength =>
         /\ out.ok
         /\ out.val.content = Payload["content"]
         /\ out.val.role = Payload["role"]
         /\ Payload["role"] = "tool" => out.val.tool_call_id = Val(Payload["tool_call_id"])

\* C2 amended: the round trip gives back content and role, and the
\* tool_call_id when it is at most TOOL_CALL_ID_MAX_LEN characters long; a
\* longer one comes back as its first TOOL_CALL_ID_MAX_LEN characters.
C2_RoundTripUpToMaxLen ==
    /\ FromModern /\ Ran("dict_to_message") => out.ok
    /\ FromModern /\ DefaultLength =>
         /\ out.ok
         /\ out.val.content = Payload["content"]
         /\ out.val.role = Payload["role"]
         /\ Payload["role"] = "tool" =>
              IF Len(Val(Payload["tool_call_id"])) <= TOOL_CALL_ID_MAX_LEN
              THEN out.val.tool_call_id = Val(Payload["tool_call_id"])
              ELSE IsPrefix(out.val.tool_call_id, Val(Payload["tool_call_id"]), TOOL_CALL_ID_MAX_LEN)

C2_Witness ==
    /\ FromModern /\ DefaultLength /\ out.ok
    /\ Payload["role"] = "tool"
    /\ Len(Val(Payload["tool_call_id"])) = TOOL_CALL_ID_MAX_LEN
    /\ out.val.tool_call_id = Val(Payload["tool_call_id"])

\* an assistant record with text and exactly one tool call (a ToolCall
\* object) whose arguments are a JSON object
OneCallWithText ==
    /\ HasRecord /\ Rec.role = "assistant" /\ NotNone(Rec.text) /\ HoldsToolCalls
    /\ Len(StoredCalls) = 1 /\ IsObject(StoredCalls[1].function.arguments)
OriginalArgs == ObjectOf(StoredCalls[1].function.arguments)
Packing == out.args.put_inner_thoughts_in_kwargs
OneFunctionCallPart == Len(out.val.parts) = 1 /\ DOMAIN out.val.parts[1] = {"functionCall"}

\* C3 as stated: with packing, the one tool call of the OpenAI output and the
\* one functionCall part of the Google output hold every original key/value
\* plus INNER_THOUGHTS_KWARG mapped to the record's text.
C3_PackingKeepsEveryKey ==
    /\ Ran("to_openai_dict") /\ Packing /\ OneCallWithText =>
         /\ out.ok /\ Len(out.val.tool_calls) = 1
         /\ IsObject(out.val.tool_calls[1].function.arguments)
         /\ DictIncludes(ObjectOf(out.val.tool_calls[1].function.arguments), OriginalArgs)
         /\ HoldsThoughts(ObjectOf(out.val.tool_calls[1].function.arguments), Rec.text)
    /\ Ran("to_google_ai_dict") /\ Packing /\ OneCallWithText /\ out.ok =>
         /\ OneFunctionCallPart
         /\ DictIncludes(out.val.parts[1].functionCall.args, OriginalArgs)
         /\ HoldsThoughts(out.val.parts[1].functionCall.args, Rec.text)

\* the original members other than the reserved key
OtherArgs == SelectSeq(OriginalArgs, LAMBDA kv : kv[1] # INNER_THOUGHTS_KWARG)

\* C3 amended: the packing law holds for arguments that do not already hold
\* the key INNER_THOUGHTS_KWARG; when they do, to_openai_dict overwrites that
\* key's value with the text (keeping the other members) and
\* to_google_ai_dict rejects; to_google_ai_dict also rejects a record whose
\* name is non-null, and returns the packed part in every other case.
C3_PackingLaw ==
    /\ Ran("to_openai_dict") /\ Packing /\ OneCallWithText =>
         /\ out.ok /\ Len(out.val.tool_calls) = 1
         /\ IsObject(out.val.tool_calls[1].function.arguments)
         /\ DictIncludes(ObjectOf(out.val.tool_calls[1].function.arguments), OtherArgs)
         /\ HoldsThoughts(ObjectOf(out.val.tool_calls[1].function.arguments), Rec.text)
         /\ Len(ObjectOf(out.val.tool_calls[1].function.arguments)) = Len(OtherArgs) + 1
    /\ Ran("to_google_ai_dict") /\ Packing /\ OneCallWithText =>
         /\ out.ok <=> IsNone(Rec.name) /\ ~DictHas(OriginalArgs, INNER_THOUGHTS_KWARG)
         /\ out.ok =>
              /\ OneFunctionCallPart
              /\ out.val.parts[1].functionCall.name = StoredCalls[1].function.name
              /\ DictIncludes(out.val.parts[1].functionCall.args, OriginalArgs)
              /\ HoldsThoughts(out.val.parts[1].functionCall.args, Rec.text)
              /\ Len(out.val.parts[1].functionCall.args) = Len(OriginalArgs) + 1

C3_Witness ==
    /\ Ran("to_openai_dict") /\ Packing /\ OneCallWithText /\ out.ok
    /\ Rec.text = Some(TextOk)
    /\ Len(OriginalArgs) = 2 /\ ~DictHas(OriginalArgs, INNER_THOUGHTS_KWARG)
    /\ Len(ObjectOf(out.val.tool_calls[1].function.arguments)) = 3

\* the text of the record sits in the arguments of every tool call of the
\* OpenAI output, and there is at least one
TextIsPacked ==
    /\ "tool_calls" \in DOMAIN out.val /\ Len(out.val.tool_calls) >= 1
    /\ \A i \in 1..Len(out.val.tool_calls) :
         /\ IsObject(out.val.tool_calls[i].function.arguments)
         /\ HoldsThoughts(ObjectOf(out.val.tool_calls[i].function.arguments), Rec.text)

\* C4: the content of an assistant turn of the OpenAI output is null only
\* when the text was packed into its tool calls, and is the text otherwise.
C4_ContentNullOnlyWhenPacked ==
    Ran("to_openai_dict") /\ out.ok /\ Rec.role = "assistant" =>
        IF TextIsPacked THEN IsNone(out.val.content) ELSE out.val.content = Rec.text

\* C5: for a positive max_tool_id_length L the OpenAI output carries the
\* first min(L, len) characters of the tool record's tool_call_id and of each
\* tool call's id, in the stored order; an id longer than L comes out as
\* exactly L characters, shorter than the original.
C5_Truncation ==
    Ran("to_openai_dict") /\ out.ok /\ out.args.max_tool_id_length > 0 =>
        LET L == out.args.max_tool_id_length IN
        /\ Rec.role = "tool" =>
             /\ IsPrefix(out.val.tool_call_id, Val(Rec.tool_call_id),
                         Min(L, Len(Val(Rec.tool_call_id))))
             /\ Len(Val(Rec.tool_call_id)) > L =>
                  Len(out.val.tool_call_id) = L /\ out.val.tool_call_id # Val(Rec.tool_call_id)
        /\ Rec.role = "assistant" /\ NotNone(Rec.tool_calls) =>
             /\ Len(out.val.tool_calls) = Len(StoredCalls)
             /\ \A i \in 1..Len(StoredCalls) :
                  /\ IsPrefix(out.val.tool_calls[i].id, StoredCalls[i].id,
                              Min(L, Len(StoredCalls[i].id)))
                  /\ Len(StoredCalls[i].id) > L =>
                       Len(out.val.tool_calls[i].id) = L
                       /\ out.val.tool_calls[i].id # StoredCalls[i].id

C5_Witness ==
    /\ Ran("to_openai_dict") /\ out.ok /\ Packing
    /\ out.args.max_tool_id_length = 2
    /\ Rec.role = "assistant" /\ Len(StoredCalls) = 2
    /\ Len(StoredCalls[1].id) = 1 /\ Len(StoredCalls[2].id) = MaxIdLen
    /\ out.val.tool_calls[1].id = IdOf(1) /\ out.val.tool_calls[2].id = IdOf(2)

Encoders == {"to_openai_dict", "to_anthropic_dict", "to_google_ai_dict", "to_cohere_dict"}

\* what add_inner_thoughts_to_tool_call does to the heap for the call at a:
\* the objects there before are as before, and on success the returned
\* object is a new one
LeavesInputAlone(a) ==
    LET r == add_inner_thoughts_to_tool_call(heap, a, Rec.text, INNER_THOUGHTS_KWARG) IN
    /\ SubSeq(r.heap, 1, Len(heap)) = heap
    /\ r.ok => r.addr # a /\ r.addr \notin DOMAIN heap

\* C6: add_inner_thoughts_to_tool_call leaves its input call as it was and
\* returns another object, and no encoder call, with or without packing and
\* with any max_tool_id_length, changes the record or its stored tool calls.
C6_CopyThenPatch ==
    /\ [][out'.op \in Encoders => msg' = msg /\ heap' = heap]_vars
    /\ [](HasRecord => \A a \in DOMAIN heap : LeavesInputAlone(a))

C6_Witness ==
    /\ Ran("to_openai_dict") /\ out.ok /\ Packing /\ out.args.max_tool_id_length = 1
    /\ Rec.role = "assistant" /\ Len(StoredCalls) = 1
    /\ Len(StoredCalls[1].id) = MaxIdLen
    /\ ~DictHas(ObjectOf(StoredCalls[1].function.arguments), INNER_THOUGHTS_KWARG)
    /\ out.val.tool_calls[1].id = IdOf(1)
    /\ HoldsThoughts(ObjectOf(out.val.tool_calls[1].function.arguments), Rec.text)

Allowed == origin.args.allow_functions_style
FunctionRole == Has(Payload, "role") /\ Payload["role"] = "function"
HasFunctionCall == Has(Payload, "function_call") /\ NotNone(Payload["function_call"])
HasRoleAndText == Has(Payload, "role") /\ Has(Payload, "content") /\ NotNone(Payload["content"])
Rejected == ~out.ok /\ IsNone(msg)
PayloadName == IF Has(Payload, "name") THEN Payload["name"] ELSE None

\* the parts of C7 that stand as stated: the gate, the two conversions and
\* the rejection of a deprecated shape without a tool_call_id key
LegacyGateAndConversions ==
    /\ (FunctionRole \/ HasFunctionCall) /\ ~Allowed => Rejected
    /\ (FunctionRole \/ HasFunctionCall) /\ ~Has(Payload, "tool_call_id") => Rejected
    /\ Allowed /\ FunctionRole /\ HasRoleAndText /\ Has(Payload, "tool_call_id") =>
         /\ out.ok
         /\ Rec.role = "tool"
         /\ Rec.text = Payload["content"]
         /\ Rec.name = PayloadName
         /\ Rec.tool_call_id = Payload["tool_call_id"]
    /\ Allowed /\ HasFunctionCall /\ HasRoleAndText /\ Payload["role"] = "assistant"
       /\ Has(Payload, "tool_call_id") /\ NotNone(Payload["tool_call_id"]) =>
         /\ out.ok
         /\ Rec.role = "assistant"
         /\ Rec.text = Payload["content"]
         /\ Len(StoredCalls) = 1
         /\ StoredCalls[1].id = Val(Payload["tool_call_id"])
         /\ StoredCalls[1].function.name = Val(Payload["function_call"]).name
         /\ StoredCalls[1].function.arguments = Val(Payload["function_call"]).arguments
         /\ IsNone(Rec.tool_call_id)

\* C7 as stated: the deprecated shapes are rejected unless allowed, converted
\* as described when allowed and given a correlation id, and a function_call
\* payload whose role is not assistant is rejected.
C7_LegacyGatingAsStated ==
    Ran("dict_to_message") =>
        /\ LegacyGateAndConversions
        /\ HasFunctionCall /\ ~(Has(Payload, "role") /\ Payload["role"] = "assistant") => Rejected

\* C7 amended: as stated, except that a function_call payload is rejected for
\* its role only when the role is neither assistant nor 'function': role
\* 'function' is looked at first and such a payload becomes a tool record
\* whether or not it carries function_call.  (content is a string where a
\* record is promised: the record's text is declared str, and a null content
\* is rejected.)
C7_LegacyGating ==
    Ran("dict_to_message") =>
        /\ LegacyGateAndConversions
        /\ HasFunctionCall /\ ~(Has(Payload, "role") /\ Payload["role"] \in {"assistant", "function"})
             => Rejected
        /\ (FunctionRole \/ HasFunctionCall) /\ Has(Payload, "content") /\ IsNone(Payload["content"])
             => Rejected

C7_Witness ==
    /\ Ran("dict_to_message") /\ Allowed /\ out.ok
    /\ FunctionRole /\ HasFunctionCall
    /\ Rec.role = "tool" /\ Rec.text = Some(TextOk) /\ Rec.name = Some(NameF)
    /\ Rec.tool_call_id = Some(IdOf(1))

\* C8: an assistant record with text and no tool calls is encoded for Google
\* as role 'model' with the one text part, with packing enabled or disabled.
C8_TextOnlyIsOneTextPart ==
    Ran("to_google_ai_dict") /\ Rec.role = "assistant"
    /\ NotNone(Rec.text) /\ IsNone(Rec.tool_calls) /\ IsNone(Rec.name) =>
        /\ out.ok
        /\ out.val.role = "model"
        /\ out.val.parts = <<[text |-> Rec.text]>>

\* C9: for an assistant record with text and tool calls the Google encoder
\* rejects when packing is disabled, rejects when packing is enabled and
\* there is more than one tool call, and when it succeeds (packing enabled,
\* exactly one tool call) the output has no text part.
C9_GoogleTextAndCalls ==
    Ran("to_google_ai_dict") /\ Rec.role = "assistant"
    /\ NotNone(Rec.text) /\ Len(StoredCalls) >= 1 =>
        /\ ~Packing => ~out.ok
        /\ Packing /\ Len(StoredCalls) > 1 => ~out.ok
        /\ out.ok =>
             /\ Packing /\ Len(StoredCalls) = 1
             /\ \A i \in 1..Len(out.val.parts) : "text" \notin DOMAIN out.val.parts[i]

C9_Witness ==
    /\ Ran("to_google_ai_dict") /\ Rec.role = "assistant" /\ out.ok
    /\ Rec.text = Some(TextOk) /\ Len(StoredCalls) = 1 /\ Packing
    /\ OneFunctionCallPart

AllObjects == HoldsToolCalls /\ \A i \in 1..Len(StoredCalls) : IsObject(StoredCalls[i].function.arguments)
\* present, as the Cohere encoder tests it: neither None nor empty
Present(o) == NotNone(o) /\ Val(o) # <<>>
CalledTurn(i) ==
    [role |-> out.args.function_call_role,
     message |-> Str(out.args.function_call_prefix) \o <<SP>>
                 \o RenderCall(StoredCalls[i].function.name,
                               ObjectOf(StoredCalls[i].function.arguments))]
ChatbotThenCalls ==
    /\ out.ok
    /\ Len(out.val) = 1 + Len(StoredCalls)
    /\ out.val[1] = [role |-> "CHATBOT", message |-> Val(Rec.text)]
    /\ \A i \in 1..Len(StoredCalls) : out.val[i + 1] = CalledTurn(i)
\* the three cases of an assistant record that do not depend on
\* inner_thoughts_as_kwarg
CallsOnlyTextOnlyNeither ==
    /\ ~Present(Rec.text) /\ Present(Rec.tool_calls) =>
         /\ out.ok
         /\ Len(out.val) = Len(StoredCalls)
         /\ \A i \in 1..Len(out.val) : out.val[i].role = out.args.function_call_role
    /\ Present(Rec.text) /\ ~Present(Rec.tool_calls) =>
         /\ out.ok
         /\ out.val = <<[role |-> "CHATBOT", message |-> Val(Rec.text)]>>
    /\ ~Present(Rec.text) /\ ~Present(Rec.tool_calls) => ~out.ok

\* C10: the Cohere encoder (inner_thoughts_as_kwarg left at its default, the
\* configuration the claim describes) turns an assistant record with n tool
\* calls into the CHATBOT turn followed by the n rendered calls (text and
\* calls), n call turns (calls only), one CHATBOT turn (text only) or a
\* rejection (neither); a user record or a tool record always gives exactly
\* one turn.
C10_CohereFanOut ==
    Ran("to_cohere_dict") /\ ~out.args.inner_thoughts_as_kwarg =>
        /\ Rec.role = "assistant" /\ AllObjects =>
             /\ Present(Rec.text) /\ Present(Rec.tool_calls) => ChatbotThenCalls
             /\ CallsOnlyTextOnlyNeither
        /\ Rec.role \in {"user", "tool"} => out.ok /\ Len(out.val) = 1

\* What does hold of to_cohere_dict: the fan-out of C10 for every record that
\* satisfies C1's invariant; text and tool calls together are rejected when
\* inner_thoughts_as_kwarg is true, and a tool record whose tool_call_id is
\* null is rejected.
CohereFanOutOfValidRecords ==
    Ran("to_cohere_dict") =>
        /\ Rec.role = "assistant" /\ AllObjects =>
             /\ Present(Rec.text) /\ Present(Rec.tool_calls) =>
                  IF out.args.inner_thoughts_as_kwarg THEN ~out.ok ELSE ChatbotThenCalls
             /\ CallsOnlyTextOnlyNeither
        /\ Rec.role = "user" => out.ok /\ Len(out.val) = 1
        /\ Rec.role = "tool" =>
             IF NotNone(Rec.tool_call_id) THEN out.ok /\ Len(out.val) = 1 ELSE ~out.ok

\* every stored tool call has arguments json.loads accepts
AllValidJson == HoldsToolCalls /\ \A i \in 1..Len(StoredCalls) : json_loads(StoredCalls[i].function.arguments).ok

\* the text wrapped in the tag: <tag>text</tag + closing, or the bare text
\* when no tag is given
Wrapped(text, xml_tag, closing) ==
    IF Truthy(xml_tag)
    THEN <<"<">> \o Val(xml_tag) \o <<">">> \o text \o <<"<", "/">> \o Val(xml_tag) \o closing
    ELSE text

\* the number of text blocks the Anthropic output starts with
TextBlocks == IF NotNone(Rec.text) THEN 1 ELSE 0

\* the content of the Anthropic output is the text block (when the record
\* has text) and then one tool_use block per stored call, in order, with the
\* call's id, name and parsed arguments
SiblingBlocks(closing) ==
    /\ out.ok
    /\ Len(out.val.content) = TextBlocks + Len(StoredCalls)
    /\ NotNone(Rec.text) =>
         out.val.content[1] =
             [type |-> "text",
              text |-> Wrapped(Val(Rec.text), out.args.inner_thoughts_xml_tag, closing)]
    /\ \A i \in 1..Len(StoredCalls) :
         out.val.content[TextBlocks + i] =
             [type |-> "tool_use", id |-> StoredCalls[i].id,
              name |-> StoredCalls[i].function.name,
              input |-> ObjectOf(StoredCalls[i].function.arguments)]

\* an assistant record the Anthropic encoder was applied to, with text or
\* tool calls, every call with valid JSON arguments
AnthropicAssistantCase ==
    /\ Ran("to_anthropic_dict") /\ Rec.role = "assistant" /\ AllValidJson
    /\ NotNone(Rec.text) \/ NotNone(Rec.tool_calls)

\* C11: for an assistant record with n tool calls of valid JSON arguments the
\* Anthropic output's content is (1 if text is present else 0) + n blocks: the
\* text between an opening tag <tag> and a closing tag </tag> first, then one
\* tool_use block per call in order with its id, name and parsed arguments.
C11_AnthropicSiblingBlocks ==
    AnthropicAssistantCase => SiblingBlocks(<<">">>)

\* What does hold of to_anthropic_dict: the same blocks, the text block ending
\* in "</tag" without the closing ">".
AnthropicSiblingBlocksAsCoded ==
    AnthropicAssistantCase => SiblingBlocks(<<>>)

\* C12 as stated: for a system record, whatever its other fields and the
\* encoder parameters, the Anthropic and Cohere encoders return nothing, the
\* OpenAI encoder returns a system turn with the text as content and the
\* Google encoder returns role 'user' with the one text part.
C12_SystemAsStated ==
    HasRecord /\ Rec.role = "system" =>
        /\ Ran("to_anthropic_dict") \/ Ran("to_cohere_dict") => ~out.ok
        /\ Ran("to_openai_dict") =>
             out.ok /\ out.val.role = "system" /\ out.val.content = Rec.text
        /\ Ran("to_google_ai_dict") =>
             out.ok /\ out.val = [role |-> "user", parts |-> <<[text |-> Rec.text]>>]

\* C12 amended: as stated, except that the Google encoder returns the 'user'
\* turn for a system record whose name is null and rejects a system record
\* whose name is non-null.
C12_SystemRejection ==
    HasRecord /\ Rec.role = "system" =>
        /\ Ran("to_anthropic_dict") \/ Ran("to_cohere_dict") => ~out.ok
        /\ Ran("to_openai_dict") =>
             out.ok /\ out.val.role = "system" /\ out.val.content = Rec.text
        /\ Ran("to_google_ai_dict") =>
             IF IsNone(Rec.name)
             THEN out.ok /\ out.val = [role |-> "user", parts |-> <<[text |-> Rec.text]>>]
             ELSE ~out.ok

C12_Witness ==
    /\ HasRecord /\ Rec.role = "system" /\ Rec.text = Some(TextOk) /\ IsNone(Rec.name)
    /\ Ran("to_google_ai_dict") /\ out.ok
    /\ out.val.role = "user" /\ out.val.parts = <<[text |-> Some(TextOk)]>>

\* the arguments json.loads rejects
Unparsable(arguments) == ~json_loads(arguments).ok
\* an assistant record that holds a tool call with such arguments
HasUnparsableCall ==
    /\ HasRecord /\ Rec.role = "assistant"
    /\ \E i \in 1..Len(StoredCalls) : Unparsable(StoredCalls[i].function.arguments)
\* the call failed: an error and no wire object
FailedOutright == ~out.ok /\ "val" \notin DOMAIN out /\ "err" \in DOMAIN out

\* C13: when an assistant record holds a tool call whose arguments are not
\* valid JSON, add_inner_thoughts_to_tool_call on that call, to_openai_dict
\* with packing, to_anthropic_dict, to_google_ai_dict, and to_cohere_dict
\* with text and tool calls both present fail with an error and return no
\* wire object, whatever the other calls of the record are.
C13_AllOrNothing ==
    HasUnparsableCall =>
        /\ \A a \in DOMAIN heap :
             Unparsable(heap[a].function.arguments) =>
                 /\ ~add_inner_thoughts_to_tool_call(heap, a, Rec.text, INNER_THOUGHTS_KWARG).ok
                 /\ add_inner_thoughts_to_tool_call(heap, a, Rec.text, INNER_THOUGHTS_KWARG).heap = heap
        /\ Ran("to_openai_dict") /\ Packing => FailedOutright
        /\ Ran("to_anthropic_dict") \/ Ran("to_google_ai_dict") => FailedOutright
        /\ Ran("to_cohere_dict") /\ Present(Rec.text) /\ Present(Rec.tool_calls) => FailedOutright

C13_Witness ==
    /\ HasUnparsableCall /\ Ran("to_anthropic_dict")
    /\ Len(StoredCalls) = 2
    /\ IsObject(StoredCalls[1].function.arguments)
    /\ Unparsable(StoredCalls[2].function.arguments)
    /\ FailedOutright /\ out.err = "JSONDecodeError"

\* the results of the encoders on record m with heap h agree with their
\* results on record n with heap g, for every value of their parameters
SameEncodings(m, h, n, g) ==
    /\ \A L \in 0..(MaxIdLen + 1), put \in BOOLEAN :
         Outcome("to_openai_dict", <<>>, to_openai_dict(m, h, L, put))
             = Outcome("to_openai_dict", <<>>, to_openai_dict(n, g, L, put))
    /\ \A tag \in {Some(Thinking), None} :
         Outcome("to_anthropic_dict", <<>>, to_anthropic_dict(m, h, tag))
             = Outcome("to_anthropic_dict", <<>>, to_anthropic_dict(n, g, tag))
    /\ \A put \in BOOLEAN :
         Outcome("to_google_ai_dict", <<>>, to_google_ai_dict(m, h, put))
             = Outcome("to_google_ai_dict", <<>>, to_google_ai_dict(n, g, put))
    /\ \A role \in {"SYSTEM", "TOOL"}, as_kwarg \in BOOLEAN :
         Outcome("to_cohere_dict", <<>>,
                 to_cohere_dict(m, h, role, Some(CalledPrefix), "SYSTEM", Some(ReturnedPrefix), as_kwarg))
             = Outcome("to_cohere_dict", <<>>,
                       to_cohere_dict(n, g, role, Some(CalledPrefix), "SYSTEM", Some(ReturnedPrefix), as_kwarg))

\* C14: a to_json call on an assistant record with tool calls succeeds,
\* however many came before, and leaves the record's tool_calls the same
\* ToolCall values, so that every encoder returns after it what it returned
\* before it.
C14_ToJsonLeavesRecord ==
    [][/\ out'.op = "to_json"
       /\ HasRecord /\ Rec.role = "assistant" /\ Len(StoredCalls) >= 1
       => /\ out'.ok
          /\ Val(msg').tool_calls = Rec.tool_calls
          /\ \A i \in 1..Len(StoredCalls) : heap'[Val(msg').tool_calls[i]] = StoredCalls[i]
          /\ SameEncodings(Val(msg'), heap', Rec, heap)]_vars

\* What does hold of to_json: the first call on a record succeeds and
\* replaces the stored ToolCall objects by dicts of their attributes and
\* created_at by a string; every later call fails and changes nothing, and
\* every encoder that reads the tool calls then fails.
ToJsonOnce ==
    [][out'.op = "to_json" =>
         IF Rec.created_at = "datetime"
         THEN /\ out'.ok /\ Val(msg').created_at = "str"
              /\ NotNone(Rec.tool_calls) /\ Len(StoredCalls) >= 1 =>
                   /\ HoldsDicts(heap', Val(Val(msg').tool_calls))
                   /\ Rec.role = "assistant" =>
                        \A L \in 0..(MaxIdLen + 1), put \in BOOLEAN :
                            ~to_openai_dict(Val(msg'), heap', L, put).ok
         ELSE ~out'.ok /\ msg' = msg /\ heap' = heap]_vars

====
